---- MODULE Spec2Model ----
(***************************************************************************)
(* Session-claim validation engine of supertokens_python:                  *)
(* recipe/session/claim_base_classes/primitive_array_claim.py.             *)
(*                                                                         *)
(* One request works on one access-token payload (a dict), reads the wall  *)
(* clock through get_timestamp_ms() and calls the claim's payload          *)
(* primitives, the validator factory and the validators.  Every call       *)
(* leaves a record of itself (operation, receiver, argument, clock         *)
(* reading, outcome) in `result` until the caller has taken it; the        *)
(* request is one sequential task, so the next call starts after that.     *)
(***************************************************************************)
EXTENDS Integers, Sequences, FiniteSets, TLC

VARIABLES payload, now, ticks, result, fetched, reqs, alone, shared

\* `fetched` counts the calls of the claim's fetch_value made by the call
\* whose record is in `result`.  `reqs`, `alone` and `shared` belong to the
\* view of two requests served side by side (see SpecConc); one request on
\* its own leaves them as they are.
concVars == <<reqs, alone, shared>>

vars == <<payload, now, ticks, result, fetched, reqs, alone, shared>>

-----------------------------------------------------------------------------
(* Bounds of the model and constants of the program.                       *)

\* Number of clock advances explored.
MaxTicks == 3

\* get_timestamp_ms() counts milliseconds; max_age_in_sec counts seconds.
MsPerSec == 1000

\* `default_max_age_in_sec or 300`.
DefaultMaxAge == 300

\* The amounts by which the wall clock advances between two readings.
Steps == {1, DefaultMaxAge * MsPerSec}

-----------------------------------------------------------------------------
(* Python values.  Every value carries its type, so that `is None`,        *)
(* isinstance(val, list) and truthiness are decided as Python decides.     *)

None == [ty |-> "NoneType"]
PyBool(b) == [ty |-> "bool", b |-> b]
PyInt(n) == [ty |-> "int", i |-> n]
PyFloat(n, d) == [ty |-> "float", num |-> n, den |-> d]
PyStr(s) == [ty |-> "str", s |-> s]
PyList(q) == [ty |-> "list", items |-> q]
PyDict(f) == [ty |-> "dict", d |-> f]

\* The empty dict literal {}.
EmptyDict == PyDict([k \in {} |-> None])

\* bool(x), as `x or y` evaluates it.
Truthy(x) ==
    CASE x.ty = "NoneType" -> FALSE
      [] x.ty = "bool" -> x.b
      [] x.ty = "int" -> x.i # 0
      [] x.ty = "str" -> x.s # ""
      [] x.ty = "list" -> x.items # <<>>
      [] OTHER -> TRUE

\* x or y
Or(x, y) == IF Truthy(x) THEN x ELSE y

\* dict.get(k, default)
DictGet(dct, k, default) == IF k \in DOMAIN dct.d THEN dct.d[k] ELSE default

\* The outcome of a call: a returned value, or a raised exception.
Return(x) == [exc |-> "", ret |-> x]
Raise(e) == [exc |-> e, ret |-> None]

-----------------------------------------------------------------------------
(* The claim and its payload primitives.                                   *)

\* The key of the claim under study, and the key of another claim.
ClaimKey == "st-claim"
OtherKey == "st-other"

\* PrimitiveArrayClaimValidators.__init__: the factory's own fields.  The
\* back-reference self.claim is passed to the factory methods below.
PrimitiveArrayClaimValidators(default_max_age_in_sec) ==
    [default_max_age_in_sec |-> default_max_age_in_sec]

\* PrimitiveArrayClaim.__init__
PrimitiveArrayClaim(key, default_max_age_in_sec) ==
    [cls |-> "PrimitiveArrayClaim",
     key |-> key,
     validators |-> PrimitiveArrayClaimValidators(
                        Or(default_max_age_in_sec, PyInt(DefaultMaxAge)))]

\* payload[key] = x
SetItem(p, key, x) == [k \in DOMAIN p \cup {key} |-> IF k = key THEN x ELSE p[k]]

\* del payload[key], for a key that is present
DelItem(p, key) == [k \in DOMAIN p \ {key} |-> p[k]]

\* add_to_payload_ with payload.setdefault(self.key, ...) in place of the
\* assignment: an entry already present is kept.
add_to_payload_setdefault(self, p, value, clock) ==
    LET q == IF self.key \in DOMAIN p THEN p
             ELSE SetItem(p, self.key, PyDict([v |-> value, t |-> PyInt(clock)]))
    IN  [payload |-> q, out |-> Return(PyDict(q))]

\* add_to_payload_ storing the value without its fetch timestamp.
add_to_payload_no_timestamp(self, p, value, clock) ==
    LET q == SetItem(p, self.key, PyDict([v |-> value]))
    IN  [payload |-> q, out |-> Return(PyDict(q))]

\* add_to_payload_ extending the list of an entry already present instead
\* of replacing it.
add_to_payload_merging(self, p, value, clock) ==
    LET old == IF self.key \in DOMAIN p /\ p[self.key].ty = "dict"
               THEN p[self.key].d.v.items ELSE <<>>
        q == SetItem(p, self.key,
                     PyDict([v |-> PyList(old \o value.items), t |-> PyInt(clock)]))
    IN  [payload |-> q, out |-> Return(PyDict(q))]

\* The dict is changed in place and returned: `payload` is the dict after
\* the call, `out` the outcome.
add_to_payload_(self, p, value, clock) ==
    LET q == SetItem(p, self.key, PyDict([v |-> value, t |-> PyInt(clock)]))
    IN  [payload |-> q, out |-> Return(PyDict(q))]

\* remove_from_payload_by_merge_ building the merge patch as a new dict
\* that holds the claim's key alone.
remove_from_payload_by_merge_fresh(self, p) ==
    LET q == [k \in {self.key} |-> None]
    IN  [payload |-> q, out |-> Return(PyDict(q))]

remove_from_payload_by_merge_(self, p) ==
    LET q == SetItem(p, self.key, None)
    IN  [payload |-> q, out |-> Return(PyDict(q))]

remove_from_payload(self, p) ==
    IF self.key \in DOMAIN p
    THEN LET q == DelItem(p, self.key)
         IN  [payload |-> q, out |-> Return(PyDict(q))]
    ELSE [payload |-> p, out |-> Raise("KeyError")]

\* payload.get(self.key, {}).get(field): None has no attribute `get`.
SubDocGet(self, p, field) ==
    LET doc == IF self.key \in DOMAIN p THEN p[self.key] ELSE EmptyDict
    IN  IF doc.ty # "dict"
        THEN Raise("AttributeError")
        ELSE Return(DictGet(doc, field, None))

get_value_from_payload(self, p) == SubDocGet(self, p, "v")

get_last_refetch_time(self, p) == SubDocGet(self, p, "t")

-----------------------------------------------------------------------------
(* The validators.                                                         *)

\* SCVMixin.__init__, called through one of the four validator classes.
SCVMixin(cls, id_, claim, val, max_age_in_sec) ==
    [cls |-> cls, id |-> id_, claim |-> claim, val |-> val,
     max_age_in_sec |-> max_age_in_sec]

IncludesSCV(id_, claim, val, max_age_in_sec) ==
    SCVMixin("IncludesSCV", id_, claim, val, max_age_in_sec)

ExcludesSCV(id_, claim, val, max_age_in_sec) ==
    SCVMixin("ExcludesSCV", id_, claim, val, max_age_in_sec)

IncludesAllSCV(id_, claim, val, max_age_in_sec) ==
    SCVMixin("IncludesAllSCV", id_, claim, val, max_age_in_sec)

ExcludesAllSCV(id_, claim, val, max_age_in_sec) ==
    SCVMixin("ExcludesAllSCV", id_, claim, val, max_age_in_sec)

\* The staleness test with the max age left in seconds.
IsStale_seconds(self, p, clock) ==
    DictGet(p[self.claim.key], "t", PyInt(0)).i
        < clock - self.max_age_in_sec.i

\* payload[claim.key].get("t", 0) < get_timestamp_ms() - self.max_age_in_sec * 1000
IsStale(self, p, clock) ==
    DictGet(p[self.claim.key], "t", PyInt(0)).i
        < clock - self.max_age_in_sec.i * MsPerSec

\* SCVMixin.should_refetch; `or` and `and` evaluate left to right and stop
\* at the first operand that decides them.
should_refetch(self, p, clock) ==
    LET got == get_value_from_payload(self.claim, p)
    IN  IF got.exc # "" THEN got
        ELSE IF got.ret = None THEN Return(PyBool(TRUE))
        ELSE IF self.max_age_in_sec = None THEN Return(PyBool(FALSE))
        ELSE Return(PyBool(IsStale(self, p, clock)))

\* ClaimValidationResult(is_valid, reason)
ClaimValidationResult(is_valid, reason) ==
    [is_valid |-> is_valid, reason |-> reason]

\* The expected key with its two names exchanged.
ExpectedKey_swapped(is_include) ==
    IF is_include THEN "expectedToNotInclude" ELSE "expectedToInclude"

\* "expectedToInclude" if is_include else "expectedToNotInclude"
ExpectedKey(is_include) ==
    IF is_include THEN "expectedToInclude" ELSE "expectedToNotInclude"

\* {"message": message, expected_key: expected, "actualValue": actual}
RuleReason(message, is_include, expected, actual) ==
    PyDict([k \in {"message", ExpectedKey(is_include), "actualValue"} |->
               IF k = "message" THEN PyStr(message)
               ELSE IF k = "actualValue" THEN actual
               ELSE expected])

\* {"message": "expired", "ageInSeconds": ..., "maxAgeInSeconds": ...}
ExpiredReason(age_in_sec, max_age_in_sec) ==
    PyDict([message |-> PyStr("expired"),
            ageInSeconds |-> age_in_sec,
            maxAgeInSeconds |-> max_age_in_sec])

\* The age left in milliseconds: the division by 1000 forgotten.
AgeInSec_millis(clock, last_refetch_time) ==
    PyFloat(clock - last_refetch_time.i, 1)

\* (get_timestamp_ms() - last_refetch_time) / 1000: true division, kept as
\* the exact quotient of two integers.
AgeInSec(clock, last_refetch_time) ==
    PyFloat(clock - last_refetch_time.i, MsPerSec)

\* The freshness comparison with >= in place of >.
Exceeds_or_equal(age_in_sec, max_age_in_sec) ==
    age_in_sec.num >= max_age_in_sec.i * age_in_sec.den

\* age_in_sec > max_age_in_sec, a float against an int
Exceeds(age_in_sec, max_age_in_sec) ==
    age_in_sec.num > max_age_in_sec.i * age_in_sec.den

\* val if isinstance(val, list) else [val]
Normalize(val) == IF val.ty = "list" THEN val ELSE PyList(<<val>>)

\* set(claim_val)
SetOf(lst) == {lst.items[i] : i \in 1..Len(lst.items)}

\* The loops returning the valid result as soon as the first element
\* passes, instead of going on to the next element.
LoopFails_first_only(vals, claim_val_set, is_include, i) ==
    /\ i <= Len(vals.items)
    /\ IF is_include THEN vals.items[i] \notin claim_val_set
                     ELSE vals.items[i] \in claim_val_set

\* The two `for v in vals` loops: TRUE when the loop returns the invalid
\* result at some element from position i on, FALSE when it runs through.
RECURSIVE LoopFails(_, _, _, _)
LoopFails(vals, claim_val_set, is_include, i) ==
    IF i > Len(vals.items) THEN FALSE
    ELSE IF is_include /\ vals.items[i] \notin claim_val_set THEN TRUE
    ELSE IF ~is_include /\ vals.items[i] \in claim_val_set THEN TRUE
    ELSE LoopFails(vals, claim_val_set, is_include, i + 1)

\* SCVMixin._validate, from the rule check on (lines 100-130).
CheckRule(self, claim_val, is_include) ==
    LET vals == Normalize(self.val)
    IN  IF LoopFails(vals, SetOf(claim_val), is_include, 1)
        THEN Return(ClaimValidationResult(FALSE,
                 RuleReason("wrong value", is_include, vals, claim_val)))
        ELSE Return(ClaimValidationResult(TRUE, None))

\* The freshness check asserting the timestamp only where it needs it,
\* under a max age.
CheckAge_lenient(self, p, clock, claim_val, is_include) ==
    LET last == get_last_refetch_time(self.claim, p)
    IN  IF last.exc # "" THEN last
        ELSE IF self.max_age_in_sec = None
        THEN CheckRule(self, claim_val, is_include)
        ELSE IF last.ret = None THEN Raise("AssertionError")
        ELSE IF Exceeds(AgeInSec(clock, last.ret), self.max_age_in_sec)
        THEN Return(ClaimValidationResult(FALSE,
                 ExpiredReason(AgeInSec(clock, last.ret), self.max_age_in_sec)))
        ELSE CheckRule(self, claim_val, is_include)

\* SCVMixin._validate, from the freshness check on (lines 87-130).
CheckAge(self, p, clock, claim_val, is_include) ==
    LET last == get_last_refetch_time(self.claim, p)
    IN  IF last.exc # "" THEN last
        ELSE IF last.ret = None THEN Raise("AssertionError")
        ELSE IF self.max_age_in_sec # None
                /\ Exceeds(AgeInSec(clock, last.ret), self.max_age_in_sec)
        THEN Return(ClaimValidationResult(FALSE,
                 ExpiredReason(AgeInSec(clock, last.ret), self.max_age_in_sec)))
        ELSE CheckRule(self, claim_val, is_include)

\* SCVMixin._validate
_validate(self, p, clock, is_include) ==
    IF self.claim.cls # "PrimitiveArrayClaim" THEN Raise("AssertionError")
    ELSE LET got == get_value_from_payload(self.claim, p)
         IN  IF got.exc # "" THEN got
             ELSE IF got.ret = None
             THEN Return(ClaimValidationResult(FALSE,
                      RuleReason("value does not exist", is_include,
                                 self.val, got.ret)))
             ELSE CheckAge(self, p, clock, got.ret, is_include)

\* ExcludesAllSCV.validate copied from IncludesAllSCV.validate with
\* is_include left at True.
validate_copied(self, p, clock) ==
    CASE self.cls = "IncludesSCV" -> _validate(self, p, clock, TRUE)
      [] self.cls = "ExcludesSCV" -> _validate(self, p, clock, FALSE)
      [] self.cls = "IncludesAllSCV" -> _validate(self, p, clock, TRUE)
      [] self.cls = "ExcludesAllSCV" -> _validate(self, p, clock, TRUE)

\* IncludesSCV.validate, ExcludesSCV.validate, IncludesAllSCV.validate,
\* ExcludesAllSCV.validate
validate(self, p, clock) ==
    CASE self.cls = "IncludesSCV" -> _validate(self, p, clock, TRUE)
      [] self.cls = "ExcludesSCV" -> _validate(self, p, clock, FALSE)
      [] self.cls = "IncludesAllSCV" -> _validate(self, p, clock, TRUE)
      [] self.cls = "ExcludesAllSCV" -> _validate(self, p, clock, FALSE)

-----------------------------------------------------------------------------
(* The validator factory: claim.validators.includes(...) and so on.  The   *)
(* factory is claim.validators and its self.claim is `claim`.              *)

\* max_age_in_seconds or self.default_max_age_in_sec
FactoryMaxAge(claim, max_age_in_seconds) ==
    Or(max_age_in_seconds, claim.validators.default_max_age_in_sec)

\* id_ or self.claim.key
FactoryId(claim, id_) == Or(id_, PyStr(claim.key))

includes(claim, val, id_, max_age_in_seconds) ==
    IncludesSCV(FactoryId(claim, id_), claim, val,
                FactoryMaxAge(claim, max_age_in_seconds))

excludes(claim, val, id_, max_age_in_seconds) ==
    ExcludesSCV(FactoryId(claim, id_), claim, val,
                FactoryMaxAge(claim, max_age_in_seconds))

includes_all(claim, val, id_, max_age_in_seconds) ==
    IncludesAllSCV(FactoryId(claim, id_), claim, val,
                   FactoryMaxAge(claim, max_age_in_seconds))

excludes_all(claim, val, id_, max_age_in_seconds) ==
    ExcludesAllSCV(FactoryId(claim, id_), claim, val,
                   FactoryMaxAge(claim, max_age_in_seconds))

-----------------------------------------------------------------------------
(* What the reading operations leave behind them.                          *)

\* A validator that fetches and stores the claim by itself when it looks
\* at the payload.
reads_refetching(p) ==
    [payload |-> SetItem(p, ClaimKey, PyDict([v |-> PyList(<<>>), t |-> PyInt(0)])),
     fetched |-> 1]

\* should_refetch, _validate, get_value_from_payload and
\* get_last_refetch_time only call payload.get(...) and .get(...): the dict
\* they were given afterwards, and the calls of fetch_value they made.
reads(p) == [payload |-> p, fetched |-> 0]

-----------------------------------------------------------------------------
(* Session creation with a claim: tests/sessions/claims/utils.py.          *)

\* {**a, **b}
DictMerge(a, b) ==
    [k \in DOMAIN a \cup DOMAIN b |-> IF k \in DOMAIN b THEN b[k] ELSE a[k]]

\* SessionClaim.build: the claim fetches its value once and, unless there
\* is none, adds it to an empty payload.
build(claim, fetch_value, clock) ==
    [update |-> IF fetch_value = None THEN EmptyDict.d
                ELSE add_to_payload_(claim, EmptyDict.d, fetch_value, clock).payload,
     fetched |-> 1]

\* session_functions_override_with_claim: the closure over claim and
\* params, `if params is None: params = {}`.
session_functions_override_with_claim(claim, params) ==
    [cls |-> "session_function_override",
     claim |-> claim,
     params |-> IF params = None THEN EmptyDict ELSE params]

\* new_create_new_session merging the caller's payload over the claim's
\* update: {**payload_update, **access_token_payload, **params}.
new_create_new_session_caller_wins(self, access_token_payload, fetch_value, clock) ==
    LET payload_update == build(self.claim, fetch_value, clock)
        atp == IF access_token_payload = None THEN EmptyDict
               ELSE access_token_payload
        merged == DictMerge(DictMerge(payload_update.update, atp.d), self.params.d)
    IN  [payload_update |-> PyDict(payload_update.update),
         fetched |-> payload_update.fetched,
         calls |-> <<PyDict(merged)>>]

\* new_create_new_session: `calls` are the calls it makes of the original
\* create_new_session, each given by the access_token_payload it passes;
\* what the original returns is returned as it is.
new_create_new_session(self, access_token_payload, fetch_value, clock) ==
    LET payload_update == build(self.claim, fetch_value, clock)
        atp == IF access_token_payload = None THEN EmptyDict
               ELSE access_token_payload
        merged == DictMerge(DictMerge(atp.d, payload_update.update), self.params.d)
    IN  [payload_update |-> PyDict(payload_update.update),
         fetched |-> payload_update.fetched,
         calls |-> <<PyDict(merged)>>]

-----------------------------------------------------------------------------
(* The objects and inputs of one request.                                  *)

\* The claim registered for the session, built without a default max age.
TheClaim == PrimitiveArrayClaim(ClaimKey, None)

\* Claims as the application may build them: without a default max age,
\* with 0 and with 60 seconds.
Claims == {PrimitiveArrayClaim(ClaimKey, d) : d \in {None, PyInt(0), PyInt(60)}}

\* Lists of at most two of the given primitives.
ListsOver(S) ==
    {PyList(<<>>)} \cup {PyList(<<x>>) : x \in S}
                   \cup {PyList(<<x, y>>) : x \in S, y \in S}

\* Values fetch_value may return for the claim and add_to_payload_ stores.
ClaimValues == ListsOver({PyStr("a"), PyStr("b")})

\* Values a validator is configured with: one primitive for includes and
\* excludes, a list for includes_all and excludes_all.
ScalarVals == {PyStr("a"), PyStr("c")}
ListVals == ListsOver({PyStr("a"), PyStr("c")})

\* max_age_in_sec of a validator built directly from its class.
MaxAges == {None, PyInt(0), PyInt(DefaultMaxAge)}

\* The validators attached to the request's claim.
Validators ==
    {IncludesSCV(PyStr(ClaimKey), TheClaim, v, m) : v \in ScalarVals, m \in MaxAges}
    \cup {ExcludesSCV(PyStr(ClaimKey), TheClaim, v, m) : v \in ScalarVals, m \in MaxAges}
    \cup {IncludesAllSCV(PyStr(ClaimKey), TheClaim, v, m) : v \in ListVals, m \in MaxAges}
    \cup {ExcludesAllSCV(PyStr(ClaimKey), TheClaim, v, m) : v \in ListVals, m \in MaxAges}

\* The sub-document another claim keeps in the payload.
OtherDoc == PyDict([v |-> PyBool(TRUE), t |-> PyInt(0)])

\* The payload a request starts from: the claim under study not yet added,
\* with or without the other claim's entry.
InitialPayloads == {[k \in {} |-> None], [k \in {OtherKey} |-> OtherDoc]}

\* The access_token_payload a caller passes to create_new_session: none,
\* an empty one, one with keys of its own, one that already holds the
\* claim's key.
CallerPayloads ==
    {None, EmptyDict,
     PyDict([k \in {"sub"} |-> PyStr("caller")]),
     PyDict([k \in {ClaimKey, OtherKey, "sub"} |->
                IF k = OtherKey THEN OtherDoc ELSE PyStr("caller")])}

\* The params the override is installed with: omitted, empty, or keys that
\* meet the caller's and the claim's.
OverrideParams ==
    {None, EmptyDict,
     PyDict([k \in {OtherKey} |-> PyStr("params")]),
     PyDict([k \in {ClaimKey, OtherKey} |-> PyStr("params")])}

\* What the claim's fetch_value returns at session creation.
FetchedValues == {None, PyList(<<PyStr("a")>>)}

\* The record a call leaves: operation, receiver, argument, the clock
\* reading it took (None when it reads no clock) and its outcome.
Call(op, self, arg, at, out) ==
    [op |-> op, self |-> self, arg |-> arg, at |-> at,
     exc |-> out.exc, ret |-> out.ret]

NoCall == Call("", None, None, None, Return(None))

-----------------------------------------------------------------------------
(* Two requests served side by side by the same objects.                   *)

\* The requests in flight.
Requests == {"r1", "r2"}

\* Each request works on its own payload dict.
InitialPayload(r) ==
    IF r = "r1" THEN [k \in {} |-> None] ELSE [k \in {OtherKey} |-> OtherDoc]

\* A request that has made no call yet.
Fresh(p) == [payload |-> p, out |-> Return(None)]

\* The objects every request uses, as they are once constructed: the
\* claim with its factory claim.validators, a validator the factory built
\* and a validator built from its class without max age.
Registered ==
    [claim |-> TheClaim,
     validators |-> <<includes(TheClaim, PyStr("a"), None, None),
                      ExcludesSCV(PyStr(ClaimKey), TheClaim, PyStr("b"), None)>>]

\* Values the requests add.
ConcValues == {PyList(<<PyStr("a")>>), PyList(<<PyStr("b")>>)}

\* self.claim of a validator is a reference to the one claim object.
Deref(objs, i) == [objs.validators[i] EXCEPT !.claim = objs.claim]

\* The claim object after one of its methods has run: add_to_payload_,
\* remove_from_payload_by_merge_, remove_from_payload and the two getters
\* assign no attribute of self, nor of self.validators.
claim_after(self) == self

\* A validator keeping the normalised list in self.val once it has been
\* used.
validator_after_memo(self) == [self EXCEPT !.val = Normalize(self.val)]

\* The validator object after should_refetch or validate has run: neither
\* assigns an attribute of self.
validator_after(self) == self

-----------------------------------------------------------------------------
(* The state machine.                                                      *)

Init ==
    /\ payload \in InitialPayloads
    /\ now = 0
    /\ ticks = 0
    /\ result = NoCall
    /\ fetched = 0
    /\ reqs = [r \in Requests |-> Fresh(InitialPayload(r))]
    /\ alone = reqs
    /\ shared = Registered

\* The wall clock advances between two calls.
Tick ==
    /\ result = NoCall
    /\ ticks < MaxTicks
    /\ \E d \in Steps : now' = now + d
    /\ ticks' = ticks + 1
    /\ UNCHANGED <<payload, result, fetched, concVars>>

AddToPayload ==
    \E value \in ClaimValues :
        LET r == add_to_payload_(TheClaim, payload, value, now)
        IN  /\ result = NoCall
            /\ payload' = r.payload
            /\ result' = Call("add_to_payload_", TheClaim, value, PyInt(now), r.out)
            /\ fetched' = 0
            /\ UNCHANGED <<now, ticks, concVars>>

RemoveFromPayloadByMerge ==
    LET r == remove_from_payload_by_merge_(TheClaim, payload)
    IN  /\ result = NoCall
        /\ payload' = r.payload
        /\ result' = Call("remove_from_payload_by_merge_", TheClaim, None, None, r.out)
        /\ fetched' = 0
        /\ UNCHANGED <<now, ticks, concVars>>

RemoveFromPayload ==
    LET r == remove_from_payload(TheClaim, payload)
    IN  /\ result = NoCall
        /\ payload' = r.payload
        /\ result' = Call("remove_from_payload", TheClaim, None, None, r.out)
        /\ fetched' = 0
        /\ UNCHANGED <<now, ticks, concVars>>

GetValueFromPayload ==
    /\ result = NoCall
    /\ result' = Call("get_value_from_payload", TheClaim, None, None,
                      get_value_from_payload(TheClaim, payload))
    /\ payload' = reads(payload).payload
    /\ fetched' = reads(payload).fetched
    /\ UNCHANGED <<now, ticks, concVars>>

GetLastRefetchTime ==
    /\ result = NoCall
    /\ result' = Call("get_last_refetch_time", TheClaim, None, None,
                      get_last_refetch_time(TheClaim, payload))
    /\ payload' = reads(payload).payload
    /\ fetched' = reads(payload).fetched
    /\ UNCHANGED <<now, ticks, concVars>>

ShouldRefetch ==
    \E self \in Validators :
        /\ result = NoCall
        /\ result' = Call("should_refetch", self, None, PyInt(now),
                          should_refetch(self, payload, now))
        /\ payload' = reads(payload).payload
        /\ fetched' = reads(payload).fetched
        /\ UNCHANGED <<now, ticks, concVars>>

Validate ==
    \E self \in Validators :
        /\ result = NoCall
        /\ result' = Call("validate", self, None, PyInt(now),
                          validate(self, payload, now))
        /\ payload' = reads(payload).payload
        /\ fetched' = reads(payload).fetched
        /\ UNCHANGED <<now, ticks, concVars>>

\* The arguments the factory methods are called with; None is an omitted
\* id_ or max_age_in_seconds.
FactoryIds == {None, PyStr("custom")}
FactoryMaxAges == {None, PyInt(0), PyInt(DefaultMaxAge)}
FactoryArgs(vals) ==
    [val : vals, id_ : FactoryIds, max_age_in_seconds : FactoryMaxAges]

Includes ==
    \E claim \in Claims, a \in FactoryArgs({PyStr("a")}) :
        /\ result = NoCall
        /\ result' = Call("includes", claim, a, None,
               Return(includes(claim, a.val, a.id_, a.max_age_in_seconds)))
        /\ UNCHANGED <<payload, now, ticks, fetched, concVars>>

Excludes ==
    \E claim \in Claims, a \in FactoryArgs({PyStr("a")}) :
        /\ result = NoCall
        /\ result' = Call("excludes", claim, a, None,
               Return(excludes(claim, a.val, a.id_, a.max_age_in_seconds)))
        /\ UNCHANGED <<payload, now, ticks, fetched, concVars>>

IncludesAll ==
    \E claim \in Claims, a \in FactoryArgs({PyList(<<PyStr("a"), PyStr("c")>>)}) :
        /\ result = NoCall
        /\ result' = Call("includes_all", claim, a, None,
               Return(includes_all(claim, a.val, a.id_, a.max_age_in_seconds)))
        /\ UNCHANGED <<payload, now, ticks, fetched, concVars>>

ExcludesAll ==
    \E claim \in Claims, a \in FactoryArgs({PyList(<<PyStr("a"), PyStr("c")>>)}) :
        /\ result = NoCall
        /\ result' = Call("excludes_all", claim, a, None,
               Return(excludes_all(claim, a.val, a.id_, a.max_age_in_seconds)))
        /\ UNCHANGED <<payload, now, ticks, fetched, concVars>>

CreateNewSession ==
    \E access_token_payload \in CallerPayloads, params \in OverrideParams,
       fetch_value \in FetchedValues :
        LET self == session_functions_override_with_claim(TheClaim, params)
            r == new_create_new_session(self, access_token_payload, fetch_value, now)
        IN  /\ result = NoCall
            /\ result' = Call("create_new_session", self,
                              [access_token_payload |-> access_token_payload,
                               payload_update |-> r.payload_update],
                              PyInt(now), Return(PyList(r.calls)))
            /\ fetched' = r.fetched
            /\ UNCHANGED <<payload, now, ticks, concVars>>

\* The caller takes the outcome of the call that has just ended.
TakeResult ==
    /\ result # NoCall
    /\ result' = NoCall
    /\ fetched' = 0
    /\ UNCHANGED <<payload, now, ticks, concVars>>

Next ==
    \/ Tick
    \/ AddToPayload
    \/ RemoveFromPayloadByMerge
    \/ RemoveFromPayload
    \/ GetValueFromPayload
    \/ GetLastRefetchTime
    \/ ShouldRefetch
    \/ Validate
    \/ Includes
    \/ Excludes
    \/ IncludesAll
    \/ ExcludesAll
    \/ CreateNewSession
    \/ TakeResult

Spec == Init /\ [][Next]_vars

-----------------------------------------------------------------------------
(* Two requests side by side.  A call is synchronous, or a coroutine       *)
(* without an await in it, so the calls of the two requests interleave as  *)
(* whole calls.  `reqs` holds each request's payload and the outcome of    *)
(* its last call; `alone` holds the same for the request run by itself,    *)
(* against objects as constructed, with the same arguments and clock       *)
(* readings; `shared` holds the objects the two requests share.            *)

\* Request r has made a call on the claim: e is what it made of the
\* request's payload, solo what it makes of it when the request is alone.
ClaimCall(r, e, solo) ==
    /\ reqs' = [reqs EXCEPT ![r] = e]
    /\ alone' = [alone EXCEPT ![r] = solo]
    /\ shared' = [shared EXCEPT !.claim = claim_after(shared.claim)]
    /\ UNCHANGED <<payload, now, ticks, result, fetched>>

\* Request r has made a call on validator i.
ValidatorCall(r, i, e, solo) ==
    /\ reqs' = [reqs EXCEPT ![r] = e]
    /\ alone' = [alone EXCEPT ![r] = solo]
    /\ shared' = [shared EXCEPT !.validators[i] = validator_after(shared.validators[i])]
    /\ UNCHANGED <<payload, now, ticks, result, fetched>>

ConcAdd(r) ==
    \E value \in ConcValues :
        ClaimCall(r, add_to_payload_(shared.claim, reqs[r].payload, value, now),
                     add_to_payload_(Registered.claim, alone[r].payload, value, now))

ConcRemoveByMerge(r) ==
    ClaimCall(r, remove_from_payload_by_merge_(shared.claim, reqs[r].payload),
                 remove_from_payload_by_merge_(Registered.claim, alone[r].payload))

ConcRemove(r) ==
    ClaimCall(r, remove_from_payload(shared.claim, reqs[r].payload),
                 remove_from_payload(Registered.claim, alone[r].payload))

ConcShouldRefetch(r) ==
    \E i \in DOMAIN shared.validators :
        ValidatorCall(r, i,
            [payload |-> reads(reqs[r].payload).payload,
             out |-> should_refetch(Deref(shared, i), reqs[r].payload, now)],
            [payload |-> reads(alone[r].payload).payload,
             out |-> should_refetch(Deref(Registered, i), alone[r].payload, now)])

ConcValidate(r) ==
    \E i \in DOMAIN shared.validators :
        ValidatorCall(r, i,
            [payload |-> reads(reqs[r].payload).payload,
             out |-> validate(Deref(shared, i), reqs[r].payload, now)],
            [payload |-> reads(alone[r].payload).payload,
             out |-> validate(Deref(Registered, i), alone[r].payload, now)])

NextConc ==
    \/ Tick
    \/ \E r \in Requests : ConcAdd(r)
    \/ \E r \in Requests : ConcRemoveByMerge(r)
    \/ \E r \in Requests : ConcRemove(r)
    \/ \E r \in Requests : ConcShouldRefetch(r)
    \/ \E r \in Requests : ConcValidate(r)

SpecConc == Init /\ [][NextConc]_vars

-----------------------------------------------------------------------------
(* Properties of the payload primitives.                                   *)

\* The claim's key is absent from the payload.
KeyAbsent == ClaimKey \notin DOMAIN payload

\* The claim's key is present and maps to the null marker.
Tombstoned == ClaimKey \in DOMAIN payload /\ payload[ClaimKey] = None

\* The claim's key maps to a sub-document.
HasDoc == ClaimKey \in DOMAIN payload /\ payload[ClaimKey].ty = "dict"

\* C1: round trip.  Whatever the payload held before (nothing, a tombstone
\* or an earlier entry for the key), reading the payload that
\* add_to_payload_ returned for value v at clock time now gives exactly v
\* for get_value_from_payload and exactly now for get_last_refetch_time.
C1_RoundTrip ==
    /\ result.op = "add_to_payload_" =>
           /\ result.exc = ""
           /\ get_value_from_payload(TheClaim, result.ret.d) = Return(result.arg)
           /\ get_last_refetch_time(TheClaim, result.ret.d) = Return(result.at)
           /\ result.ret.d = payload
    /\ \A value \in ClaimValues :
           LET r == add_to_payload_(TheClaim, payload, value, now)
           IN  /\ get_value_from_payload(TheClaim, r.payload) = Return(value)
               /\ get_last_refetch_time(TheClaim, r.payload) = Return(PyInt(now))

\* C1 witness: a non-empty value was added after the clock had advanced,
\* to a payload that also carries another claim.
C1_Witness ==
    /\ result.op = "add_to_payload_"
    /\ result.arg = PyList(<<PyStr("a"), PyStr("b")>>)
    /\ result.at = PyInt(DefaultMaxAge * MsPerSec + 1)
    /\ OtherKey \in DOMAIN payload

\* C2: idempotent remove.  remove_from_payload called on a payload that
\* does not hold the claim's key (a second call, or a payload that never
\* held it) completes normally and returns the payload unchanged.
C2_IdempotentRemove ==
    [][(KeyAbsent /\ RemoveFromPayload) =>
           (/\ result'.exc = ""
            /\ result'.ret = PyDict(payload)
            /\ payload' = payload)]_vars

\* C3: merge tombstone.  After remove_from_payload_by_merge_ the key is
\* present and null, and get_value_from_payload and get_last_refetch_time
\* on a payload in that state return None without failing.
C3_MergeTombstoneRead ==
    /\ result.op = "remove_from_payload_by_merge_" => Tombstoned
    /\ (result.op \in {"get_value_from_payload", "get_last_refetch_time"}
        /\ Tombstoned) =>
           (result.exc = "" /\ result.ret = None)

-----------------------------------------------------------------------------
(* Properties of the validators.  While a call's record is in `result`     *)
(* the payload is the one the call left and, for should_refetch and        *)
(* validate, the one it read; result.at is the clock reading it took.      *)

\* The validator is one of the two include validators.
IsInclude(self) == self.cls \in {"IncludesSCV", "IncludesAllSCV"}

\* The configured value as a sequence, a scalar giving one element.
ConfiguredSeq(self) ==
    IF self.val.ty = "list" THEN self.val.items ELSE <<self.val>>

\* The stored value and fetch timestamp of the claim, when it has a
\* sub-document.
StoredValue == payload[ClaimKey].d.v
StoredTime == payload[ClaimKey].d.t.i
StoredElems == {StoredValue.items[i] : i \in 1..Len(StoredValue.items)}

\* Milliseconds between the stored timestamp and the call's clock reading.
AgeMs == result.at.i - StoredTime

\* The call's validator has a max age and the stored value is older.
Expired ==
    /\ result.self.max_age_in_sec # None
    /\ AgeMs > result.self.max_age_in_sec.i * MsPerSec

\* The reason of an invalid result, with the key that names the
\* expectation chosen by the include/exclude axis.
Reason(self, message, expected, actual) ==
    IF IsInclude(self)
    THEN PyDict([message |-> PyStr(message), expectedToInclude |-> expected,
                 actualValue |-> actual])
    ELSE PyDict([message |-> PyStr(message), expectedToNotInclude |-> expected,
                 actualValue |-> actual])

\* C4: missing claim.  validate of any of the four validators, with any
\* configured value and max age, on a payload to which the claim's key was
\* never added returns (never raises) an invalid result whose reason is
\* "value does not exist" with actualValue None and the configured value
\* under expectedToInclude (include validators) or expectedToNotInclude
\* (exclude validators).
C4_MissingClaim ==
    (result.op = "validate" /\ KeyAbsent) =>
        /\ result.exc = ""
        /\ result.ret = [is_valid |-> FALSE,
                         reason |-> Reason(result.self, "value does not exist",
                                           result.self.val, None)]

\* C4 witness: an exclude validator without max age has validated a
\* payload that holds only another claim's entry.
C4_Witness ==
    /\ result.op = "validate"
    /\ KeyAbsent
    /\ OtherKey \in DOMAIN payload
    /\ result.self.cls = "ExcludesAllSCV"
    /\ result.self.max_age_in_sec = None
    /\ result.ret.is_valid = FALSE

\* C5: should_refetch at clock time now returns true exactly when the
\* claim has no value in the payload, or max_age_in_sec is set and
\* now - t > max_age_in_sec * 1000 for the stored timestamp t (strictly).
C5_ShouldRefetch ==
    result.op = "should_refetch" =>
        /\ result.exc = ""
        /\ result.ret = PyBool(~HasDoc \/ Expired)

\* C5, on the payloads where the claim's key is absent or holds a
\* sub-document: the same equivalence.
C5_ShouldRefetchOffTombstone ==
    (result.op = "should_refetch" /\ ~Tombstoned) =>
        /\ result.exc = ""
        /\ result.ret = PyBool(~HasDoc \/ Expired)

\* C5, boundary: a validator with max age 300 has been asked at exactly
\* 300000 ms of age and answered false.
C5_AtBoundary ==
    /\ result.op = "should_refetch"
    /\ HasDoc
    /\ result.self.max_age_in_sec = PyInt(DefaultMaxAge)
    /\ AgeMs = DefaultMaxAge * MsPerSec
    /\ result.ret = PyBool(FALSE)

\* C5, boundary: the same at 300001 ms of age, answered true.
C5_PastBoundary ==
    /\ result.op = "should_refetch"
    /\ HasDoc
    /\ result.self.max_age_in_sec = PyInt(DefaultMaxAge)
    /\ AgeMs = DefaultMaxAge * MsPerSec + 1
    /\ result.ret = PyBool(TRUE)

\* C6: expiry comes before the rule.  With the claim's value present,
\* validate of any of the four validators returns invalid with reason
\* {message: "expired", ageInSeconds: (now - t)/1000, maxAgeInSeconds:
\* max_age_in_sec} whenever max_age_in_sec is set and (now - t)/1000 exceeds
\* it, whether the rule is satisfied or not; when max_age_in_sec is None or
\* the age does not exceed it, the result is never "expired".
C6_ExpiredFirst ==
    (result.op = "validate" /\ HasDoc) =>
        /\ result.exc = ""
        /\ Expired =>
               result.ret =
                   [is_valid |-> FALSE,
                    reason |-> PyDict([message |-> PyStr("expired"),
                                       ageInSeconds |-> PyFloat(AgeMs, MsPerSec),
                                       maxAgeInSeconds |-> result.self.max_age_in_sec])]
        /\ ~Expired =>
               \/ result.ret.is_valid
               \/ result.ret.reason.d.message # PyStr("expired")

\* C6 witness: includes("a") with max age 300 has validated a value that
\* contains "a" and is 300001 ms old, and reported it expired.
C6_Witness ==
    /\ result.op = "validate"
    /\ HasDoc
    /\ result.self.cls = "IncludesSCV"
    /\ result.self.val = PyStr("a")
    /\ PyStr("a") \in StoredElems
    /\ result.self.max_age_in_sec = PyInt(DefaultMaxAge)
    /\ AgeMs = DefaultMaxAge * MsPerSec + 1
    /\ result.ret.is_valid = FALSE
    /\ result.ret.reason.d.message = PyStr("expired")

\* C7: include semantics.  With the claim's value present and not expired,
\* validate of includes(value) and includes_all(values) returns valid if
\* and only if every element of the normalized configured sequence is a
\* member of the claim value; otherwise it returns invalid with reason
\* {message: "wrong value", expectedToInclude: the normalized sequence (also
\* for a scalar), actualValue: the claim value}.
C7_IncludeSemantics ==
    (result.op = "validate" /\ HasDoc /\ ~Expired /\ IsInclude(result.self)) =>
        LET elems == ConfiguredSeq(result.self)
            satisfied == \A i \in 1..Len(elems) : elems[i] \in StoredElems
        IN  /\ result.exc = ""
            /\ result.ret =
                   IF satisfied
                   THEN [is_valid |-> TRUE, reason |-> None]
                   ELSE [is_valid |-> FALSE,
                         reason |-> PyDict([message |-> PyStr("wrong value"),
                                            expectedToInclude |-> PyList(elems),
                                            actualValue |-> StoredValue])]

\* C7 witness: includes("c") has validated the fresh value ["a", "b"] and
\* reported the one-element list ["c"] as expected.
C7_Witness ==
    /\ result.op = "validate"
    /\ HasDoc
    /\ ~Expired
    /\ result.self.cls = "IncludesSCV"
    /\ result.self.val = PyStr("c")
    /\ StoredValue = PyList(<<PyStr("a"), PyStr("b")>>)
    /\ result.ret.is_valid = FALSE
    /\ result.ret.reason.d.expectedToInclude = PyList(<<PyStr("c")>>)

\* C8: exclude semantics.  With the claim's value present and not expired,
\* validate of excludes(value) and excludes_all(values) returns valid if
\* and only if no element of the normalized configured sequence is a
\* member of the claim value; otherwise it returns invalid with reason
\* {message: "wrong value", expectedToNotInclude: the normalized sequence,
\* actualValue: the claim value}.
C8_ExcludeSemantics ==
    (result.op = "validate" /\ HasDoc /\ ~Expired /\ ~IsInclude(result.self)) =>
        LET elems == ConfiguredSeq(result.self)
            satisfied == \A i \in 1..Len(elems) : elems[i] \notin StoredElems
        IN  /\ result.exc = ""
            /\ result.ret =
                   IF satisfied
                   THEN [is_valid |-> TRUE, reason |-> None]
                   ELSE [is_valid |-> FALSE,
                         reason |-> PyDict([message |-> PyStr("wrong value"),
                                            expectedToNotInclude |-> PyList(elems),
                                            actualValue |-> StoredValue])]

\* C8 witness: excludes_all(["c", "a"]) has validated the fresh value
\* ["a", "b"], whose second configured element is present, and rejected it.
C8_Witness ==
    /\ result.op = "validate"
    /\ HasDoc
    /\ ~Expired
    /\ result.self.cls = "ExcludesAllSCV"
    /\ result.self.val = PyList(<<PyStr("c"), PyStr("a")>>)
    /\ StoredValue = PyList(<<PyStr("a"), PyStr("b")>>)
    /\ result.ret.is_valid = FALSE
    /\ result.ret.reason.d.message = PyStr("wrong value")

-----------------------------------------------------------------------------
(* Frame of the payload mutations, and the factory's defaults.             *)

\* A step of one of the three payload mutations.
MutationStep == AddToPayload \/ RemoveFromPayloadByMerge \/ RemoveFromPayload

\* C9: frame.  add_to_payload_, remove_from_payload_by_merge_ and
\* remove_from_payload leave every key other than the claim's own as it
\* was, in presence and in value, in the payload and in the dict they
\* return; among the claim's own key and the others only the former is
\* added, overwritten, tombstoned or deleted.
C9_Frame ==
    [][MutationStep =>
           /\ DOMAIN payload' \ {ClaimKey} = DOMAIN payload \ {ClaimKey}
           /\ \A k \in DOMAIN payload \ {ClaimKey} : payload'[k] = payload[k]
           /\ result'.exc = "" => result'.ret = PyDict(payload')]_vars

\* C9 witness: the claim's entry has been tombstoned in a payload that
\* carries another claim's entry.
C9_Witness ==
    /\ result.op = "remove_from_payload_by_merge_"
    /\ Tombstoned
    /\ OtherKey \in DOMAIN payload
    /\ payload[OtherKey] = OtherDoc

\* The four factory methods.
FactoryOps == {"includes", "excludes", "includes_all", "excludes_all"}

\* C10: factory defaults.  Each factory method returns a validator bound
\* to the factory's claim, whose id is the id the caller gave, or the
\* claim's key when the caller gave none, and whose max_age_in_sec is the
\* max_age_in_seconds the caller gave, for every integer >= 0 including 0,
\* or the factory's default_max_age_in_sec only when the caller gave none;
\* a claim built without a default has the factory default 300.
C10_FactoryDefaults ==
    /\ TheClaim.validators.default_max_age_in_sec = PyInt(300)
    /\ result.op \in FactoryOps =>
           /\ result.exc = ""
           /\ result.ret.claim = result.self
           /\ result.ret.id = IF result.arg.id_ = None
                              THEN PyStr(result.self.key)
                              ELSE result.arg.id_
           /\ result.ret.max_age_in_sec =
                  IF result.arg.max_age_in_seconds = None
                  THEN result.self.validators.default_max_age_in_sec
                  ELSE result.arg.max_age_in_seconds

-----------------------------------------------------------------------------
(* The shape of the claim's entry over a request.                          *)

\* The claim's key maps to a sub-document that has exactly the fields v
\* and t.
FullDoc == HasDoc /\ DOMAIN payload[ClaimKey].d = {"v", "t"}

\* C11 as stated: whenever the claim's key exists in the payload its entry
\* has both fields v and t.
C11_KeyMeansDoc == ClaimKey \in DOMAIN payload => FullDoc

\* C11, amended: whenever the claim's key exists its entry is the null
\* marker or has both fields v and t; and the key is missing after a step
\* exactly when it was missing before and the step neither added nor
\* merge-removed the claim, or the step was a remove_from_payload of the
\* present key.
C11_SubDocument ==
    /\ [](ClaimKey \in DOMAIN payload => (Tombstoned \/ FullDoc))
    /\ [][(ClaimKey \notin DOMAIN payload') <=>
              \/ KeyAbsent /\ ~AddToPayload /\ ~RemoveFromPayloadByMerge
              \/ ~KeyAbsent /\ RemoveFromPayload]_vars

\* C11 witness: the key is missing again after an entry with both fields
\* had been added and was removed by remove_from_payload.
C11_Witness ==
    /\ result.op = "remove_from_payload"
    /\ result.exc = ""
    /\ KeyAbsent
    /\ ticks > 0

\* C14: wholesale overwrite.  add_to_payload_(payload, v2) at time t2 on
\* a payload that already holds an entry {v: v1, t: t1} leaves the entry
\* exactly {v: v2, t: t2}: no element of v1 and no other field is kept, so
\* the entry reflects the last add only.
C14_WholesaleOverwrite ==
    [][(FullDoc /\ AddToPayload) =>
           /\ payload'[ClaimKey] = PyDict([v |-> result'.arg, t |-> result'.at])
           /\ result'.at = PyInt(now)
           /\ result'.arg \in ClaimValues]_vars

\* C14 witness: the one-element value ["b"] is the entry's whole value
\* after an add at a later clock reading than the first possible add.
C14_Witness ==
    /\ result.op = "add_to_payload_"
    /\ result.arg = PyList(<<PyStr("b")>>)
    /\ result.at = PyInt(2)
    /\ FullDoc
    /\ StoredValue = PyList(<<PyStr("b")>>)
    /\ StoredTime = 2

-----------------------------------------------------------------------------
(* should_refetch and validate against each other.                         *)

\* The messages with which validate asks for a refetch.
RefetchMessages == {PyStr("value does not exist"), PyStr("expired")}

\* The outcome is an invalid result with one of the given messages.
InvalidWith(out, messages) ==
    /\ out.exc = ""
    /\ ~out.ret.is_valid
    /\ out.ret.reason.d.message \in messages

\* C16: agreement.  For every validator, every payload whose entry for
\* the claim, if any, has both v and t, and every clock time now: when
\* should_refetch returns false at now, validate at the same now returns
\* neither "value does not exist" nor "expired"; and when validate returns
\* one of the two, should_refetch at the same now returns true.
C16_Agreement ==
    /\ (result.op = "should_refetch" /\ (KeyAbsent \/ FullDoc)
        /\ result.ret = PyBool(FALSE)) =>
           LET v == validate(result.self, payload, result.at.i)
           IN  v.exc = "" /\ ~InvalidWith(v, RefetchMessages)
    /\ (result.op = "validate" /\ (KeyAbsent \/ FullDoc)
        /\ InvalidWith(result, RefetchMessages)) =>
           should_refetch(result.self, payload, result.at.i) = Return(PyBool(TRUE))

\* C16 witness: a validator with max age 0 has reported a value of 1 ms
\* of age as expired.
C16_Witness ==
    /\ result.op = "validate"
    /\ FullDoc
    /\ result.self.max_age_in_sec = PyInt(0)
    /\ AgeMs = 1
    /\ InvalidWith(result, {PyStr("expired")})

\* C17: a refetch clears staleness.  Once a non-null value has been
\* stored by add_to_payload_ at time t0, every validator with a
\* max_age_in_sec >= 0 answers, at every clock time now with
\* t0 <= now <= t0 + max_age_in_sec * 1000, false to should_refetch and
\* valid or "wrong value" to validate; a check made right after the
\* refetch (now = t0) therefore never asks for another one.
C17_FreshAfterAdd ==
    (/\ result.op \in {"should_refetch", "validate"}
     /\ FullDoc
     /\ result.self.max_age_in_sec # None
     /\ result.self.max_age_in_sec.i >= 0
     /\ AgeMs >= 0
     /\ AgeMs <= result.self.max_age_in_sec.i * MsPerSec) =>
        /\ result.exc = ""
        /\ result.op = "should_refetch" => result.ret = PyBool(FALSE)
        /\ result.op = "validate" =>
               \/ result.ret.is_valid
               \/ InvalidWith(result, {PyStr("wrong value")})

\* C17 witness: a validator with max age 300 has been asked at the last
\* instant of the window, 300000 ms after the add, and wants no refetch.
C17_Witness ==
    /\ result.op = "should_refetch"
    /\ FullDoc
    /\ StoredTime = 1
    /\ result.self.max_age_in_sec = PyInt(DefaultMaxAge)
    /\ AgeMs = DefaultMaxAge * MsPerSec
    /\ result.ret = PyBool(FALSE)

-----------------------------------------------------------------------------
(* A request whose payload comes from a token that breaks the claim's      *)
(* contract: the entry holds a value and no fetch timestamp.               *)

\* Sub-documents with a non-null v and no t.
BrokenDocs == {PyDict([v |-> value]) : value \in {PyList(<<>>), PyList(<<PyStr("a")>>)}}

\* Payloads that hold such an entry for the claim, alone or beside the
\* other claim's entry.
BrokenPayloads ==
    {[k \in {ClaimKey} |-> doc] : doc \in BrokenDocs}
    \cup {[k \in {ClaimKey, OtherKey} |-> IF k = ClaimKey THEN doc ELSE OtherDoc] :
              doc \in BrokenDocs}

InitBroken ==
    /\ payload \in BrokenPayloads
    /\ now = 0
    /\ ticks = 0
    /\ result = NoCall
    /\ fetched = 0
    /\ reqs = [r \in Requests |-> Fresh(InitialPayload(r))]
    /\ alone = reqs
    /\ shared = Registered

SpecBroken == InitBroken /\ [][Next]_vars

\* The claim's entry holds a non-null v and no t.
ValueWithoutTime ==
    /\ HasDoc
    /\ "v" \in DOMAIN payload[ClaimKey].d
    /\ payload[ClaimKey].d.v # None
    /\ "t" \notin DOMAIN payload[ClaimKey].d

\* C13: a broken internal contract is fatal.  validate of any of the four
\* validators, with max_age_in_sec set or None, on a payload whose entry
\* for the claim has a non-null v and no t ends in an assertion failure
\* and returns no validation result, valid or invalid.
C13_MissingTimeIsFatal ==
    (result.op = "validate" /\ ValueWithoutTime) =>
        /\ result.exc = "AssertionError"
        /\ result.ret = None

\* C13 witness: an exclude validator without max age has been run on such
\* a payload, whose value satisfies its rule, and was aborted.
C13_Witness ==
    /\ result.op = "validate"
    /\ ValueWithoutTime
    /\ result.self.cls = "ExcludesSCV"
    /\ result.self.val = PyStr("c")
    /\ result.self.max_age_in_sec = None
    /\ result.exc # ""

-----------------------------------------------------------------------------
(* C15  Read-only evaluation.                                              *)

\* The step is a call of one of the four reading operations.
ReadingStep ==
    result'.op \in {"get_value_from_payload", "get_last_refetch_time",
                    "should_refetch", "validate"}

\* C15: a step of should_refetch, validate, get_value_from_payload or
\* get_last_refetch_time leaves the payload as it was, every key and
\* sub-document, and has called fetch_value no time, whatever it returns
\* or raises.
C15_ReadOnly ==
    [][ReadingStep => (payload' = payload /\ fetched' = 0)]_vars

\* validate has reported an expired claim, which is a need to refetch, and
\* the stale entry is still there, nothing fetched.
C15_Witness ==
    /\ result.op = "validate"
    /\ InvalidWith(result, {PyStr("expired")})
    /\ Expired
    /\ HasDoc
    /\ fetched = 0

-----------------------------------------------------------------------------
(* C18  Session creation through the override.                             *)

\* The caller's payload of a create_new_session call, None read as {}.
CallerDict ==
    IF result.arg.access_token_payload = None THEN EmptyDict.d
    ELSE result.arg.access_token_payload.d

\* C18: a create_new_session call through the override calls the original
\* once, with a payload whose keys are the caller's, the update's and the
\* params', each key holding the params' value if params have it, else the
\* claim update's if the update has it, else the caller's.
C18_OverrideMerge ==
    result.op = "create_new_session" =>
        /\ result.exc = ""
        /\ Len(result.ret.items) = 1
        /\ LET passed == result.ret.items[1].d
               params == result.self.params.d
               update == result.arg.payload_update.d
           IN  /\ DOMAIN passed = DOMAIN CallerDict \cup DOMAIN update \cup DOMAIN params
               /\ \A k \in DOMAIN params : passed[k] = params[k]
               /\ \A k \in DOMAIN update \ DOMAIN params : passed[k] = update[k]
               /\ \A k \in DOMAIN CallerDict \ (DOMAIN update \cup DOMAIN params) :
                      passed[k] = CallerDict[k]

\* The caller's payload holds the claim's key, the other claim's key and a
\* key of its own; the claim is built and params hold the other key.
C18_Witness ==
    /\ result.op = "create_new_session"
    /\ {ClaimKey, OtherKey, "sub"} \subseteq DOMAIN CallerDict
    /\ ClaimKey \in DOMAIN result.arg.payload_update.d
    /\ DOMAIN result.self.params.d = {OtherKey}
    /\ result.ret.items[1].d[ClaimKey] = result.arg.payload_update.d[ClaimKey]
    /\ result.ret.items[1].d[OtherKey] = PyStr("params")
    /\ result.ret.items[1].d["sub"] = PyStr("caller")
    /\ fetched = 1

-----------------------------------------------------------------------------
(* C12  No interference between concurrent requests.                       *)

\* C12: under every interleaving of the two requests' calls, each request
\* has the payload and the outcome it has when run alone, and the shared
\* claim, factory and validators are as constructed: key,
\* default_max_age_in_sec, id, val and max_age_in_sec unchanged.
C12_NoInterference ==
    /\ \A r \in Requests :
          /\ reqs[r].payload = alone[r].payload
          /\ reqs[r].out = alone[r].out
    /\ shared.claim.key = Registered.claim.key
    /\ shared.claim.validators.default_max_age_in_sec
          = Registered.claim.validators.default_max_age_in_sec
    /\ \A i \in DOMAIN Registered.validators :
          /\ shared.validators[i].id = Registered.validators[i].id
          /\ shared.validators[i].val = Registered.validators[i].val
          /\ shared.validators[i].max_age_in_sec = Registered.validators[i].max_age_in_sec

\* Both requests have been served in turn by the same validator, with
\* different verdicts on their different payloads.
C12_Witness ==
    /\ ClaimKey \in DOMAIN reqs["r1"].payload
    /\ ClaimKey \in DOMAIN reqs["r2"].payload
    /\ reqs["r1"].payload[ClaimKey] # reqs["r2"].payload[ClaimKey]
    /\ reqs["r1"].out = Return(ClaimValidationResult(TRUE, None))
    /\ reqs["r2"].out =
          Return(ClaimValidationResult(FALSE,
              RuleReason("wrong value", TRUE, PyList(<<PyStr("a")>>),
                         PyList(<<PyStr("b")>>))))

====
